---- MODULE Spec2Model ----
(***************************************************************************)
(* Comment subsystem of the Naath Archive Express API: the comments and    *)
(* comment_likes tables, the authentication and ownership middleware, and  *)
(* the /api/comments route handlers.  Every dbQuery of a handler is one    *)
(* atomic step; requests of different clients interleave between steps.    *)
(***************************************************************************)
EXTENDS Integers, Sequences, FiniteSets, Bags, TLC

\* ------------------------------------------------------------------ bounds
MaxComments == 5     \* comment ids ever allocated (uuid_generate_v4 never repeats)
MaxProcs == 2        \* requests in flight at the same time
LogLen == 3          \* remembered toggle-like responses per (comment, user)
MaxReqs == 3         \* requests received in one behaviour
MaxRaced == 1        \* comments created in a behaviour whose requests overlap
MaxDigit == 2        \* largest digit of a page or limit query parameter
MaxLen == 3          \* digits of a page or limit query parameter
MaxTotal == 6        \* rows the count query of the list can report
MaxLikes == 1        \* likes of a comment whose pages are walked
MaxLimit == 3        \* limit of a walk through the pages
MaxCalls == 2        \* calls of the web client awaiting their response

CommentIds == 1..MaxComments
ArticleIds == {"A1", "A2"}
NULL == 0            \* parent_id IS NULL
NoRow == [article_id |-> "-", user_id |-> "-", parent_id |-> NULL,
          is_approved |-> FALSE, content |-> "-"]

\* ------------------------------------------------------------------ users
\* users table: id -> role, is_active.  No route of the repository writes it.
users ==
  [u \in {"adm", "con", "usr", "off"} |->
     [role |-> CASE u = "adm" -> "admin"
                 [] u = "con" -> "contributor"
                 [] OTHER -> "user",
      is_active |-> (u # "off")]]

UserIds == DOMAIN users

\* Bearer credentials a client can present: none, a malformed one, an expired
\* one, or a correctly signed one naming a user id ("ghost" names no row).
Tokens == {"none", "bad", "expired"} \cup UserIds \cup {"ghost"}

\* authenticateToken answering a token that fails verification like a missing
\* one; C16_TokenOutcomes tells the two apart.
authenticateTokenMerged(token) ==
  IF token \in {"none", "bad"} THEN [status |-> 401, error |-> "Access token required"]
  ELSE IF token = "expired" THEN [status |-> 401, error |-> "Token expired"]
  ELSE IF token \notin UserIds THEN [status |-> 401, error |-> "User not found"]
  ELSE IF ~users[token].is_active THEN [status |-> 401, error |-> "Account deactivated"]
  ELSE [status |-> 0, error |-> "-"]

\* authenticateToken without the is_active test; C17_IdentityAvailable tells
\* the two apart.
authenticateTokenAnyUser(token) ==
  IF token = "none" THEN [status |-> 401, error |-> "Access token required"]
  ELSE IF token = "expired" THEN [status |-> 401, error |-> "Token expired"]
  ELSE IF token = "bad" THEN [status |-> 403, error |-> "Invalid token"]
  ELSE IF token \notin UserIds THEN [status |-> 401, error |-> "User not found"]
  ELSE [status |-> 0, error |-> "-"]

\* authenticateToken: the status it answers with, 0 when it calls next().
authenticateToken(token) ==
  IF token = "none" THEN [status |-> 401, error |-> "Access token required"]
  ELSE IF token = "expired" THEN [status |-> 401, error |-> "Token expired"]
  ELSE IF token = "bad" THEN [status |-> 403, error |-> "Invalid token"]
  ELSE IF token \notin UserIds THEN [status |-> 401, error |-> "User not found"]
  ELSE IF ~users[token].is_active THEN [status |-> 401, error |-> "Account deactivated"]
  ELSE [status |-> 0, error |-> "-"]

ValidTokens == {t \in Tokens : authenticateToken(t).status = 0}

\* The accounts that post new comments: the admin and the role=user account.
Authors == {t \in ValidTokens : users[t].role \in {"admin", "user"}}

\* ------------------------------------------------------------------ inputs
Contents == {"", "a"}          \* request body content after trim(); "" is empty
Statuses == {"draft", "published", "archived"}

\* body('content').trim().isLength({min: 1, max: 1000})
validContent(content) == content # ""

VARIABLES
  articles,    \* articles table: id -> status, "gone" once deleted
  comments,    \* comments table: id -> row, NoRow when absent
  nextId,      \* next comment id the table hands out
  likes,       \* comment_likes: <<comment_id, user_id>> -> number of rows
  inflight,    \* bag of the requests being handled, each with its locals and
               \* the query it is about to issue (pc)
  done,        \* the request answered by the step that led to this state
  resp,        \* the response that step sent
  toggleLog,   \* history: liked values of the successful toggles, newest last
  nreq,        \* requests received so far
  pg,          \* pagination of one list request: its query parameters, the
               \* count it read and the pagination object it answered
  client       \* AuthProvider of the web client: user, token, the token item
               \* of localStorage, the pending effect and the calls in flight

vars == <<articles, comments, nextId, likes, inflight, done, resp, toggleLog, nreq, pg,
          client>>
db == <<articles, comments, nextId, likes, toggleLog>>

NoReq == [op |-> "-", pc |-> "-", token |-> "-", user |-> "-", id |-> NULL,
          articleId |-> "-", parentId |-> NULL, content |-> "-", status |-> "-",
          rows |-> {}, pending |-> {}, replies |-> {}]
NoResp == [status |-> 0, error |-> "-", liked |-> FALSE, isApproved |-> FALSE,
           id |-> NULL, comments |-> {}, pendingComments |-> <<>>, count |-> 0]

role(u) == users[u].role

Exists(c) == c \in CommentIds /\ comments[c] # NoRow

\* The ids a client can put in a request: those the table has handed out, and
\* one uuid that names no row (it may still be handed out later).
KnownIds == {c \in CommentIds : c <= nextId}

\* ------------------------------------------------------------------ schema
\* articles.author_id: the seeds insert every article as the contributor's, and
\* no modelled route changes the author.
author_id == [a \in ArticleIds |-> "con"]

\* "comment_count" INTEGER NOT NULL DEFAULT 0 of the Article table: the column
\* takes its default at insert and no statement of the repository writes it.
comment_count == [a \in ArticleIds |-> 0]

\* Rows a DELETE of comment c removes: c and, through parent_id ON DELETE
\* CASCADE, every comment below it.
RECURSIVE Below(_, _, _)
Below(cs, S, n) ==
  IF n = 0 THEN S
  ELSE Below(cs, S \cup {d \in CommentIds : cs[d] # NoRow /\ cs[d].parent_id \in S}, n - 1)

CascadeSet(cs, c) == Below(cs, {c}, MaxComments)

\* DELETE FROM comments WHERE id in S, with comment_likes.comment_id CASCADE.
CommentsAfterDelete(cs, S) == [d \in CommentIds |-> IF d \in S THEN NoRow ELSE cs[d]]
LikesAfterDelete(ls, S) == [k \in DOMAIN ls |-> IF k[1] \in S THEN 0 ELSE ls[k]]
LogAfterDelete(lg, S) == [k \in DOMAIN lg |-> IF k[1] \in S THEN <<>> ELSE lg[k]]

\* The database after schema.sql and the seeds: two published articles, and on
\* the first one a comment of the contributor, a comment of the admin and the
\* contributor's reply to the admin's comment, all three approved.
SeedComments ==
  <<[article_id |-> "A1", user_id |-> "con", parent_id |-> NULL,
     is_approved |-> TRUE, content |-> "s"],
    [article_id |-> "A1", user_id |-> "adm", parent_id |-> NULL,
     is_approved |-> TRUE, content |-> "s"],
    [article_id |-> "A1", user_id |-> "con", parent_id |-> 2,
     is_approved |-> TRUE, content |-> "s"]>>

Seeded ==
  /\ articles = [a \in ArticleIds |-> "published"]
  /\ comments = [c \in CommentIds |->
                   IF c <= Len(SeedComments) THEN SeedComments[c] ELSE NoRow]
  /\ nextId = Len(SeedComments) + 1
  /\ likes = [k \in CommentIds \X ValidTokens |-> 0]
  /\ inflight = EmptyBag
  /\ done = NoReq
  /\ resp = NoResp
  /\ toggleLog = [k \in CommentIds \X ValidTokens |-> <<>>]
  /\ nreq = 0

\* No list request whose pagination is followed.
NoPagination == [status |-> 0, currentPage |-> 0, totalPages |-> 0, totalComments |-> 0,
                 hasNextPage |-> FALSE, hasPrevPage |-> FALSE]
NoPage == [page |-> <<>>, limit |-> <<>>, total |-> 0, out |-> NoPagination,
           sort |-> "newest", likes |-> <<>>, pages |-> <<>>]

\* JavaScript's null
null == "null"

\* No web client.
NoClient == [user |-> null, token |-> null, localStorage |-> null, effect |-> FALSE,
             calls |-> EmptyBag]

Init == Seeded /\ pg = NoPage /\ client = NoClient

\* ------------------------------------------------------------------ requests
\* Of an answered request the state keeps the route, the actor, the :id, the
\* article and the parent asked for.
Kept(r) ==
  [NoReq EXCEPT !.op = r.op, !.token = r.token, !.user = r.user, !.id = r.id,
                !.articleId = r.articleId, !.parentId = r.parentId]

\* A request arrives: the server handles at most MaxProcs at a time.
Free ==
  /\ BagCardinality(inflight) < MaxProcs
  /\ nreq < MaxReqs
  /\ nreq' = nreq + 1
  /\ UNCHANGED <<db, pg, client>>

\* The new request r goes on to its first query.
Start(r, label) ==
  /\ inflight' = inflight (+) SetToBag({[r EXCEPT !.pc = label]})
  /\ resp' = NoResp
  /\ done' = NoReq

\* The new request r is answered before its handler issued any query.
RespondAtOnce(r, answer) ==
  /\ inflight' = inflight
  /\ resp' = answer
  /\ done' = Kept(r)

\* The request r in flight goes on to its next query, with the locals r2.
GotoWith(r, label, r2) ==
  /\ inflight' = (inflight (-) SetToBag({r})) (+) SetToBag({[r2 EXCEPT !.pc = label]})
  /\ resp' = NoResp
  /\ done' = NoReq

Goto(r, label) == GotoWith(r, label, r)

\* res.status(..).json(..): the request r in flight is answered.
Respond(r, answer) ==
  /\ inflight' = inflight (-) SetToBag({r})
  /\ resp' = answer
  /\ done' = Kept(r)

\* The requests in flight that are about to issue the query named label.
At(label) == {r \in BagToSet(inflight) : r.pc = label}

Fail(status, error) == [NoResp EXCEPT !.status = status, !.error = error]

\* Caught passing the driver's message on; C26_StorageErrors tells the two apart.
CaughtRaw(r) == "error.message"

\* The error of the catch block a throwing query of request r ends in: the
\* middleware's while it checks ownership, else the route's.
Caught(r) ==
  IF r.pc = "own" THEN "Ownership verification error"
  ELSE CASE r.op = "list" -> "Failed to retrieve comments"
         [] r.op = "create" -> "Failed to create comment"
         [] r.op = "update" -> "Failed to update comment"
         [] r.op = "delete" -> "Failed to delete comment"
         [] r.op = "like" -> "Failed to toggle comment like"
         [] r.op = "approve" -> "Failed to approve comment"
         [] r.op = "pending" -> "Failed to retrieve pending comments"
         [] r.op = "articleUpdate" -> "Failed to update article"
         [] OTHER -> "Failed to delete article"


\* ------------------------------------------------------------------ receive
\* A request to any route behind authenticateToken whose credential it turns
\* down: the middleware answers by itself, the handler and its inputs are never read.
ReceiveRejected ==
  /\ Free
  /\ \E token \in Tokens \ ValidTokens :
       RespondAtOnce([NoReq EXCEPT !.op = "guarded", !.token = token],
                     Fail(authenticateToken(token).status, authenticateToken(token).error))

\* authenticateToken sets req.user and calls next().  Its users lookup reads a
\* table nothing writes, so it is part of the step that receives the request.
Authenticated(r) == [r EXCEPT !.user = r.token]

\* The handler's validationResult(req) check of a new request.
Validated(r, label) ==
  IF validContent(r.content)
    THEN Start(r, label)
    ELSE RespondAtOnce(r, Fail(400, "Validation failed"))

\* Guarded with the body validated before the ownership check; C25_StageOrder
\* tells the two apart.
GuardedValidatedFirst(r, label) ==
  IF label = "update" /\ ~validContent(r.content)
    THEN RespondAtOnce(r, Fail(400, "Validation failed"))
    ELSE IF role(r.user) = "admin" THEN Start(r, label)
    ELSE IF r.id = NULL THEN RespondAtOnce(r, Fail(400, "Resource ID required"))
    ELSE Start(r, "own")

\* requireOwnershipOrAdmin, first half: an admin passes without a query; for
\* anyone else req.params.id || req.body.id must name a resource.
Guarded(r, label) ==
  IF role(r.user) = "admin"
    THEN IF label = "update" THEN Validated(r, label) ELSE Start(r, label)
    ELSE IF r.id = NULL THEN RespondAtOnce(r, Fail(400, "Resource ID required"))
    ELSE Start(r, "own")

CreatesInFlight == BagCardinality([r \in At("createArticle") \cup At("createParent")
                                       \cup At("createInsert") |-> inflight[r]])

\* POST /api/comments
ReceiveCreate ==
  /\ Free
  /\ nextId + CreatesInFlight <= MaxComments
  /\ \E token \in Authors, content \in Contents, a \in ArticleIds,
        parent \in {NULL} \cup KnownIds :
       Validated(Authenticated([NoReq EXCEPT !.op = "create", !.token = token,
                                  !.content = content, !.articleId = a,
                                  !.parentId = parent]),
                 "createArticle")

\* PUT /api/comments/:id
ReceiveUpdate ==
  /\ Free
  /\ \E token \in ValidTokens, content \in Contents, id \in KnownIds :
       Guarded(Authenticated([NoReq EXCEPT !.op = "update", !.token = token,
                                !.content = content, !.id = id]),
               "update")

\* DELETE /api/comments/:id
ReceiveDelete ==
  /\ Free
  /\ \E token \in ValidTokens, id \in KnownIds :
       Guarded(Authenticated([NoReq EXCEPT !.op = "delete", !.token = token, !.id = id]),
               "delete")

\* PUT /api/comments/:id/approve
ReceiveApprove ==
  /\ Free
  /\ \E token \in ValidTokens, id \in KnownIds :
       Guarded(Authenticated([NoReq EXCEPT !.op = "approve", !.token = token, !.id = id]),
               "approve")

\* POST /api/comments/:id/like
ReceiveLike ==
  /\ Free
  /\ \E token \in ValidTokens, id \in KnownIds :
       Start(Authenticated([NoReq EXCEPT !.op = "like", !.token = token, !.id = id]),
             "likeComment")

\* GET /api/comments/pending.  The route has no :id; a non-admin's request
\* carries an id only in its body, an admin's is never read.
ReceivePending ==
  /\ Free
  /\ \E token \in ValidTokens :
       \E id \in {NULL} \cup (IF role(token) = "admin" THEN {} ELSE KnownIds) :
         Guarded(Authenticated([NoReq EXCEPT !.op = "pending", !.token = token,
                                  !.id = id]),
                 "pending")

\* Owns without the comparison; C4_OwnershipErrors tells the two apart.
OwnsAnything(r) == TRUE

\* resource.user_id !== req.user.id, negated
Owns(r) == comments[r.id].user_id = r.user

\* requireOwnershipOrAdmin, second half: SELECT user_id FROM comments WHERE id.
OwnershipQuery ==
  \E r \in At("own") :
    /\ UNCHANGED <<db, nreq, pg, client>>
    /\ IF ~Exists(r.id) THEN Respond(r, Fail(404, "Resource not found"))
       ELSE IF ~Owns(r) THEN Respond(r, Fail(403, "Access denied"))
       ELSE IF r.op = "update" /\ ~validContent(r.content)
         THEN Respond(r, Fail(400, "Validation failed"))
       ELSE Goto(r, r.op)

\* ------------------------------------------------------------------ articles
\* requireOwnershipOrAdmin('articles') for a non-admin selects user_id from a
\* table whose owner column is author_id: the query throws, the catch answers 500.
GuardedArticle(r, label) ==
  IF role(r.user) = "admin"
    THEN Start(r, label)
    ELSE RespondAtOnce(r, Fail(500, "Ownership verification error"))

\* PUT /api/articles/:id with a status in the body
ReceiveArticleUpdate ==
  /\ Free
  /\ \E token \in ValidTokens, a \in ArticleIds, st \in Statuses :
       GuardedArticle(Authenticated([NoReq EXCEPT !.op = "articleUpdate", !.token = token,
                                       !.articleId = a, !.status = st]),
                      "articleUpdate")

\* DELETE /api/articles/:id
ReceiveArticleDelete ==
  /\ Free
  /\ \E token \in ValidTokens, a \in ArticleIds :
       GuardedArticle(Authenticated([NoReq EXCEPT !.op = "articleDelete", !.token = token,
                                       !.articleId = a]),
                      "articleDelete")

\* UPDATE articles SET status = $n WHERE id = $m RETURNING ...
ArticleUpdate ==
  \E r \in At("articleUpdate") :
    /\ UNCHANGED <<comments, nextId, likes, toggleLog, nreq, pg, client>>
    /\ IF articles[r.articleId] = "gone"
         THEN /\ Respond(r, Fail(404, "Article not found"))
              /\ UNCHANGED articles
         ELSE /\ articles' = [articles EXCEPT ![r.articleId] = r.status]
              /\ Respond(r, [NoResp EXCEPT !.status = 200])

\* comments.article_id REFERENCES articles(id) ON DELETE CASCADE
ArticleCascade(cs, a) ==
  Below(cs, {c \in CommentIds : cs[c] # NoRow /\ cs[c].article_id = a}, MaxComments)

\* DELETE FROM articles WHERE id = $1 RETURNING id
ArticleDelete ==
  \E r \in At("articleDelete") :
    LET S == ArticleCascade(comments, r.articleId) IN
    /\ UNCHANGED <<nextId, nreq, pg, client>>
    /\ IF articles[r.articleId] = "gone"
         THEN /\ Respond(r, Fail(404, "Article not found"))
              /\ UNCHANGED <<articles, comments, likes, toggleLog>>
         ELSE /\ articles' = [articles EXCEPT ![r.articleId] = "gone"]
              /\ comments' = CommentsAfterDelete(comments, S)
              /\ likes' = LikesAfterDelete(likes, S)
              /\ toggleLog' = LogAfterDelete(toggleLog, S)
              /\ Respond(r, [NoResp EXCEPT !.status = 200])

\* ------------------------------------------------------------------ create
\* Published without the status test; C12_CreateNotFound tells the two apart.
AnyStatus(a) == articles[a] # "gone"

\* SELECT id FROM articles WHERE id = $1 AND status = 'published'
Published(a) == articles[a] = "published"

CreateArticleQuery ==
  \E r \in At("createArticle") :
    /\ UNCHANGED <<db, nreq, pg, client>>
    /\ IF ~Published(r.articleId) THEN Respond(r, Fail(404, "Article not found"))
       ELSE IF r.parentId # NULL THEN Goto(r, "createParent")
       ELSE Goto(r, "createInsert")

\* ParentFound without the article test; C11_ParentSameArticle tells the two apart.
ParentAnywhere(parentId, articleId) ==
  Exists(parentId) /\ comments[parentId].is_approved

\* SELECT id FROM comments WHERE id = $1 AND article_id = $2 AND is_approved = true
ParentFound(parentId, articleId) ==
  /\ Exists(parentId)
  /\ comments[parentId].article_id = articleId
  /\ comments[parentId].is_approved

CreateParentQuery ==
  \E r \in At("createParent") :
    /\ UNCHANGED <<db, nreq, pg, client>>
    /\ IF ParentFound(r.parentId, r.articleId)
         THEN Goto(r, "createInsert")
         ELSE Respond(r, Fail(404, "Parent comment not found"))

\* InsertedRow with is_approved always true; C1_CreateApproval tells the two apart.
InsertedRowApproved(r) ==
  [article_id |-> r.articleId, user_id |-> r.user, parent_id |-> r.parentId,
   is_approved |-> TRUE, content |-> r.content]

\* The row of INSERT INTO comments (content, article_id, user_id, parent_id, is_approved)
InsertedRow(r) ==
  [article_id |-> r.articleId, user_id |-> r.user, parent_id |-> r.parentId,
   is_approved |-> (role(r.user) = "admin"), content |-> r.content]

\* The foreign keys of comments: article_id and parent_id must name rows.
CommentForeignKeys(row) ==
  /\ articles[row.article_id] # "gone"
  /\ row.parent_id # NULL => Exists(row.parent_id)

\* isApproved: req.user.role === 'admin'
ReportedApproval(r) == role(r.user) = "admin"

CreateInsert ==
  \E r \in At("createInsert") :
    LET row == InsertedRow(r) IN
    /\ UNCHANGED <<articles, likes, toggleLog, nreq, pg, client>>
    /\ IF CommentForeignKeys(row)
         THEN /\ comments' = [comments EXCEPT ![nextId] = row]
              /\ nextId' = nextId + 1
              /\ Respond(r, [NoResp EXCEPT !.status = 201, !.id = nextId,
                                            !.isApproved = ReportedApproval(r)])
         ELSE /\ UNCHANGED <<comments, nextId>>
              /\ Respond(r, Fail(500, Caught(r)))

\* ------------------------------------------------------------------ update, delete, approve
\* UpdatedRow sending the edited comment back to moderation; C10_ApprovalStays
\* tells the two apart.
UpdatedRowPending(row, content) == [row EXCEPT !.content = content, !.is_approved = FALSE]

\* UpdatedRow making the comment a top-level one; C20_UpdateFrame tells the two
\* apart.
UpdatedRowDetached(row, content) == [row EXCEPT !.content = content, !.parent_id = NULL]

\* UPDATE comments SET content = $1, updated_at = CURRENT_TIMESTAMP WHERE id = $2
UpdatedRow(row, content) == [row EXCEPT !.content = content]

UpdateComment ==
  \E r \in At("update") :
    /\ UNCHANGED <<articles, nextId, likes, toggleLog, nreq, pg, client>>
    /\ IF Exists(r.id)
         THEN /\ comments' = [comments EXCEPT ![r.id] = UpdatedRow(@, r.content)]
              /\ Respond(r, [NoResp EXCEPT !.status = 200, !.id = r.id])
         ELSE /\ UNCHANGED comments
              /\ Respond(r, Fail(404, "Comment not found"))

\* DeletedSet without the cascade; C9_DeleteCascades tells the two apart.
DeletedOnly(cs, c) == {c}

\* DELETE FROM comments WHERE id = $1 RETURNING id
DeletedSet(cs, c) == CascadeSet(cs, c)

DeleteComment ==
  \E r \in At("delete") :
    LET S == DeletedSet(comments, r.id) IN
    /\ UNCHANGED <<articles, nextId, nreq, pg, client>>
    /\ IF Exists(r.id)
         THEN /\ comments' = CommentsAfterDelete(comments, S)
              /\ likes' = LikesAfterDelete(likes, S)
              /\ toggleLog' = LogAfterDelete(toggleLog, S)
              /\ Respond(r, [NoResp EXCEPT !.status = 200, !.id = r.id])
         ELSE /\ UNCHANGED <<comments, likes, toggleLog>>
              /\ Respond(r, Fail(404, "Comment not found"))

\* ApprovedRow flipping the flag; C21_ApproveIdempotent tells the two apart.
ApprovedRowToggled(row) == [row EXCEPT !.is_approved = ~@]

\* ApprovedRow writing nothing; C14_PendingThenListed tells the two apart.
ApprovedRowKept(row) == row

\* UPDATE comments SET is_approved = true, updated_at = CURRENT_TIMESTAMP WHERE id = $1
ApprovedRow(row) == [row EXCEPT !.is_approved = TRUE]

ApproveComment ==
  \E r \in At("approve") :
    /\ UNCHANGED <<articles, nextId, likes, toggleLog, nreq, pg, client>>
    /\ IF Exists(r.id)
         THEN /\ comments' = [comments EXCEPT ![r.id] = ApprovedRow(@)]
              /\ Respond(r, [NoResp EXCEPT !.status = 200, !.id = r.id,
                                           !.isApproved = ApprovedRow(comments[r.id]).is_approved])
         ELSE /\ UNCHANGED comments
              /\ Respond(r, Fail(404, "Comment not found"))

\* ------------------------------------------------------------------ toggle like
\* Likeable without the approval test; C13_LikesOnApproved tells the two apart.
LikeableAny(c) == Exists(c)

\* SELECT id FROM comments WHERE id = $1 AND is_approved = true
Likeable(c) == Exists(c) /\ comments[c].is_approved

LikeCommentQuery ==
  \E r \in At("likeComment") :
    /\ UNCHANGED <<db, nreq, pg, client>>
    /\ IF Likeable(r.id)
         THEN Goto(r, "likeExisting")
         ELSE Respond(r, Fail(404, "Comment not found"))

\* SELECT id FROM comment_likes WHERE comment_id = $1 AND user_id = $2
LikeExistingQuery ==
  \E r \in At("likeExisting") :
    /\ UNCHANGED <<db, nreq, pg, client>>
    /\ IF likes[<<r.id, r.user>>] > 0
         THEN Goto(r, "likeDelete")
         ELSE Goto(r, "likeInsert")

\* The history of liked values reported for a comment that is still there.
Logged(lg, c, u, liked) ==
  IF Exists(c)
    THEN [lg EXCEPT ![<<c, u>>] =
            IF Len(@) < LogLen THEN Append(@, liked) ELSE Append(Tail(@), liked)]
    ELSE lg

\* RowsAfterUnlike deleting nothing; C5_ToggleFlips tells the two apart.
RowsKept(ls, c, u) == ls

\* DELETE FROM comment_likes WHERE comment_id = $1 AND user_id = $2
RowsAfterUnlike(ls, c, u) == [ls EXCEPT ![<<c, u>>] = 0]

LikeDelete ==
  \E r \in At("likeDelete") :
    /\ UNCHANGED <<articles, comments, nextId, nreq, pg, client>>
    /\ likes' = RowsAfterUnlike(likes, r.id, r.user)
    /\ toggleLog' = Logged(toggleLog, r.id, r.user, FALSE)
    /\ Respond(r, [NoResp EXCEPT !.status = 200, !.id = r.id, !.liked = FALSE])

\* UniqueViolation of a table without the constraint; C7_AtMostOneLike tells
\* the two apart.
NoConstraint(ls, c, u) == FALSE

\* UNIQUE(comment_id, user_id) of comment_likes
UniqueViolation(ls, c, u) == ls[<<c, u>>] > 0

\* INSERT INTO comment_likes (comment_id, user_id) VALUES ($1, $2); a violated
\* constraint throws and the handler's catch answers 500.
LikeInsert ==
  \E r \in At("likeInsert") :
    /\ UNCHANGED <<articles, comments, nextId, nreq, pg, client>>
    /\ IF Exists(r.id) /\ ~UniqueViolation(likes, r.id, r.user)
         THEN /\ likes' = [likes EXCEPT ![<<r.id, r.user>>] = @ + 1]
              /\ toggleLog' = Logged(toggleLog, r.id, r.user, TRUE)
              /\ Respond(r, [NoResp EXCEPT !.status = 200, !.id = r.id, !.liked = TRUE])
         ELSE /\ UNCHANGED <<likes, toggleLog>>
              /\ Respond(r, Fail(500, Caught(r)))

\* ------------------------------------------------------------------ list
RECURSIVE SumOver(_, _)
SumOver(f, S) ==
  IF S = {} THEN 0
  ELSE LET k == CHOOSE x \in S : TRUE IN f[k] + SumOver(f, S \ {k})

\* LikesCount without its WHERE clause; C8_LikeCounts tells the two apart.
LikesCountAll(c) == SumOver(likes, DOMAIN likes)

\* (SELECT COUNT(*) FROM comment_likes WHERE comment_id = c.id)
LikesCount(c) == SumOver(likes, {c} \X ValidTokens)

\* WHERE c.parent_id = $1 AND c.is_approved = true
ApprovedReplies(c) ==
  {d \in CommentIds : Exists(d) /\ comments[d].parent_id = c /\ comments[d].is_approved}

\* TopLevel without the approval test; C3_ListShowsApproved tells the two apart.
TopLevelAny(a) ==
  {c \in CommentIds : Exists(c) /\ comments[c].article_id = a /\ comments[c].parent_id = NULL}

\* WHERE c.article_id = $1 AND c.parent_id IS NULL AND c.is_approved = true
TopLevel(a) ==
  {c \in CommentIds : /\ Exists(c)
                      /\ comments[c].article_id = a
                      /\ comments[c].parent_id = NULL
                      /\ comments[c].is_approved}

\* GET /api/comments/article/:articleId, page and limit at their defaults (1, 20)
ReceiveList ==
  /\ Free
  /\ \E a \in ArticleIds :
       Start([NoReq EXCEPT !.op = "list", !.articleId = a], "listArticle")

ListArticleQuery ==
  \E r \in At("listArticle") :
    /\ UNCHANGED <<db, nreq, pg, client>>
    /\ IF Published(r.articleId)
         THEN Goto(r, "listCount")
         ELSE Respond(r, Fail(404, "Article not found"))

\* SELECT COUNT(*) FROM comments WHERE article_id = $1 AND parent_id IS NULL AND is_approved
ListCountQuery ==
  \E r \in At("listCount") :
    /\ UNCHANGED <<db, nreq, pg, client>>
    /\ Goto(r, "listComments")

CommentRows(a) ==
  {[id |-> c, likesCount |-> LikesCount(c),
    repliesCount |-> Cardinality(ApprovedReplies(c))] : c \in TopLevel(a)}

ReplyRows(c) ==
  {[parent |-> c, id |-> d, likesCount |-> LikesCount(d)] : d \in ApprovedReplies(c)}

\* res.json({comments, pagination}): each row with its replies
Shaped(rows, replies) ==
  {[id |-> e.id, likesCount |-> e.likesCount, repliesCount |-> e.repliesCount,
    replies |-> {[id |-> x.id, likesCount |-> x.likesCount] :
                   x \in {y \in replies : y.parent = e.id}}] : e \in rows}

ListCommentsQuery ==
  \E r \in At("listComments") :
    LET rows == CommentRows(r.articleId) IN
    /\ UNCHANGED <<db, nreq, pg, client>>
    /\ IF rows = {}
         THEN Respond(r, [NoResp EXCEPT !.status = 200])
         ELSE GotoWith(r, "listReplies",
                       [r EXCEPT !.rows = rows, !.pending = {e.id : e \in rows}])

\* Promise.all over the rows: one replies query per row, answered in any order.
ListRepliesQuery ==
  \E r \in At("listReplies") :
    /\ UNCHANGED <<db, nreq, pg, client>>
    /\ \E c \in r.pending :
         LET replies == r.replies \cup ReplyRows(c) IN
         IF r.pending = {c}
           THEN Respond(r, [NoResp EXCEPT !.status = 200,
                                          !.comments = Shaped(r.rows, replies)])
           ELSE GotoWith(r, "listReplies",
                         [r EXCEPT !.pending = @ \ {c}, !.replies = replies])

\* ------------------------------------------------------------------ pending list
\* comments.created_at DEFAULT CURRENT_TIMESTAMP: the rows of the seed's single
\* INSERT share one timestamp, every later row has the time of its own INSERT.
createdAt(c) == IF c <= Len(SeedComments) THEN 0 ELSE c

\* WHERE c.is_approved = false (the joins find a user and an article for every row)
PendingRows == {c \in CommentIds : Exists(c) /\ ~comments[c].is_approved}

\* OldestFirst in descending order; C19_PendingList tells the two apart.
NewestFirst(S) ==
  {q \in [1..Cardinality(S) -> S] :
     \A i, j \in 1..Cardinality(S) :
       i < j => (q[i] # q[j] /\ createdAt(q[i]) >= createdAt(q[j]))}

\* ORDER BY c.created_at ASC: the orders the database may return the rows S in
OldestFirst(S) ==
  {q \in [1..Cardinality(S) -> S] :
     \A i, j \in 1..Cardinality(S) :
       i < j => (q[i] # q[j] /\ createdAt(q[i]) <= createdAt(q[j]))}

\* res.json({ pendingComments, count: pendingComments.length })
PendingQuery ==
  \E r \in At("pending") :
    /\ UNCHANGED <<db, nreq, pg, client>>
    /\ \E q \in OldestFirst(PendingRows) :
         Respond(r, [NoResp EXCEPT !.status = 200, !.pendingComments = q,
                                   !.count = Len(q)])

\* ------------------------------------------------------------------ pagination
\* The pagination object of GET /api/comments/article/:articleId as a function
\* of the page and limit query parameters and of the count query's result.
DefaultPage == 1
DefaultLimit == 20
LimitCeiling == 100

\* A query parameter as the client sent it: absent (<<>>) or a string of
\* decimal digits, leading zeroes allowed.
Digits == 0..MaxDigit

RECURSIVE DigitStrings(_)
DigitStrings(n) ==
  IF n = 0 THEN {<<>>}
  ELSE LET S == DigitStrings(n - 1) IN
       S \cup {Append(x, d) : x \in {y \in S : Len(y) = n - 1}, d \in Digits}

QueryParams == DigitStrings(MaxLen)

\* The number JavaScript makes of a digit string in arithmetic and comparison.
RECURSIVE ToNumber(_)
ToNumber(str) ==
  IF str = <<>> THEN 0
  ELSE 10 * ToNumber(SubSeq(str, 1, Len(str) - 1)) + str[Len(str)]

\* query('page').optional().isInt({ min: 1 })
validPage(raw) == raw = <<>> \/ ToNumber(raw) >= 1

\* query('limit').optional().isInt({ min: 1, max: 100 })
validLimit(raw) == raw = <<>> \/ (ToNumber(raw) >= 1 /\ ToNumber(raw) <= LimitCeiling)

\* const { page = 1, limit = 20, sort = 'newest' } = req.query
pageOf(raw) == IF raw = <<>> THEN DefaultPage ELSE ToNumber(raw)
limitOf(raw) == IF raw = <<>> THEN DefaultLimit ELSE ToNumber(raw)

\* totalPages rounding down; C15_HasNextPage tells the two apart.
totalPagesFloor(totalComments, limit) == totalComments \div limit

\* Math.ceil(totalComments / limit)
totalPages(totalComments, limit) ==
  IF totalComments % limit = 0 THEN totalComments \div limit
  ELSE totalComments \div limit + 1

\* pagination: { currentPage, totalPages, totalComments, hasNextPage, hasPrevPage }
Pagination(rawPage, rawLimit, totalComments) ==
  LET page == pageOf(rawPage)
      pages == totalPages(totalComments, limitOf(rawLimit))
  IN [status |-> 200, currentPage |-> page, totalPages |-> pages,
      totalComments |-> totalComments,
      hasNextPage |-> page < pages, hasPrevPage |-> page > 1]

\* The handler answers a list request that passed validation.
Paginate ==
  /\ pg.out = NoPagination
  /\ validPage(pg.page) /\ validLimit(pg.limit)
  /\ pg' = [pg EXCEPT !.out = Pagination(pg.page, pg.limit, pg.total)]
  /\ UNCHANGED <<db, inflight, done, resp, nreq, client>>

\* validationResult(req) is not empty: 400 before any query.
PageRejected ==
  /\ pg.out = NoPagination
  /\ ~(validPage(pg.page) /\ validLimit(pg.limit))
  /\ pg' = [pg EXCEPT !.out = [NoPagination EXCEPT !.status = 400]]
  /\ UNCHANGED <<db, inflight, done, resp, nreq, client>>

\* One list request with any page and limit parameters, over a table with any
\* number of approved top-level comments.
PageInit ==
  /\ Seeded
  /\ pg \in [page : QueryParams, limit : QueryParams, total : 0..MaxTotal,
             out : {NoPagination}, sort : {NoPage.sort}, likes : {NoPage.likes},
             pages : {NoPage.pages}]
  /\ client = NoClient

PageNext ==
  \/ Paginate
  \/ PageRejected

PageSpec == PageInit /\ [][PageNext]_vars

\* ------------------------------------------------------------------ pages
\* The rows of GET /api/comments/article/:articleId page by page, over a table
\* nothing writes in the meantime and whose approved top-level comments have
\* pairwise distinct creation times.
Sorts == {"newest", "oldest", "likes"}

\* The decimal digits a client sends for the number n.
RECURSIVE Decimal(_)
Decimal(n) == IF n < 10 THEN <<n>> ELSE Append(Decimal(n \div 10), n % 10)

\* orderByClause: row x is sorted before row y
Before(x, y, sort) ==
  CASE sort = "oldest" -> x.created_at < y.created_at
    [] sort = "likes" -> \/ x.likes_count > y.likes_count
                         \/ x.likes_count = y.likes_count /\ x.created_at > y.created_at
    [] OTHER -> x.created_at > y.created_at

Position(x, rows, sort) == 1 + Cardinality({y \in rows : Before(y, x, sort)})

\* offset skipping the requested page as well; C29_PagesPartition tells the
\* two apart.
offsetNextPage(page, limit) == page * limit

\* const offset = (page - 1) * limit
offset(page, limit) == (page - 1) * limit

\* ${orderByClause} LIMIT $2 OFFSET $3: the ids of the rows in the window
Window(rows, sort, limit, off) ==
  LET n == Cardinality(rows)
      len == IF n - off < 0 THEN 0 ELSE IF n - off < limit THEN n - off ELSE limit
  IN [i \in 1..len |-> (CHOOSE x \in rows : Position(x, rows, sort) = off + i).id]

\* The approved top-level comments of the article: comment i was created at
\* time i and has pg.likes[i] likes.
WalkRows ==
  {[id |-> i, created_at |-> i, likes_count |-> pg.likes[i]] : i \in 1..pg.total}

\* The client requests the page after the last one it received.
FetchPage ==
  /\ Len(pg.pages) <= MaxTotal
  /\ LET raw == Decimal(Len(pg.pages) + 1)
         lim == limitOf(pg.limit)
     IN pg' = [pg EXCEPT !.pages =
                 Append(@, [rows |-> Window(WalkRows, pg.sort, lim,
                                            offset(pageOf(raw), lim)),
                            out |-> Pagination(raw, pg.limit, pg.total)])]
  /\ UNCHANGED <<db, inflight, done, resp, nreq, client>>

WalkInit ==
  /\ Seeded
  /\ \E t \in 0..MaxTotal :
       pg \in [page : {NoPage.page}, limit : {<<>>} \cup {Decimal(l) : l \in 1..MaxLimit},
               total : {t}, out : {NoPagination}, sort : Sorts,
               likes : [1..t -> 0..MaxLikes], pages : {NoPage.pages}]
  /\ client = NoClient

WalkSpec == WalkInit /\ [][FetchPage]_vars

\* ------------------------------------------------------------------ AuthProvider
\* The AuthProvider component of the web client.  The code between two awaits
\* runs as one step; the response of a call arrives at any later time.
Accounts == {"ann", "bob"}

\* The token the API issues to an account.
tokenOf(a) == IF a = "ann" THEN "jwt.ann" ELSE "jwt.bob"
SessionTokens == {tokenOf(a) : a \in Accounts}

\* The account GET /auth/me answers for a bearer token.
accountOf(t) == CHOOSE a \in Accounts : tokenOf(a) = t

\* useState(null), useState(localStorage.getItem('token')); both effects are
\* due after the first render.
Mounted(stored) ==
  [user |-> null, token |-> stored, localStorage |-> stored, effect |-> TRUE,
   calls |-> EmptyBag]

\* setToken(t): the effects with dependency [token] are due when it changes.
setToken(c, t) == [c EXCEPT !.token = t, !.effect = @ \/ (t # c.token)]

ClientStep == UNCHANGED <<db, inflight, done, resp, nreq, pg>>

Calling(c, k) ==
  /\ BagCardinality(c.calls) < MaxCalls
  /\ client' = [c EXCEPT !.calls = @ (+) SetToBag({k})]

Awaited(call) == {k \in BagToSet(client.calls) : k.call = call}

Settled(c, k) == [c EXCEPT !.calls = @ (-) SetToBag({k})]

\* useEffect(() => { checkAuth() }, [token]): with a token it sends GET
\* /auth/me; the request interceptor takes the bearer from localStorage.
checkAuth ==
  /\ client.effect
  /\ IF client.token # null
       THEN Calling([client EXCEPT !.effect = FALSE],
                    [call |-> "me", arg |-> client.localStorage])
       ELSE client' = [client EXCEPT !.effect = FALSE]
  /\ ClientStep

\* setUser(response.data.user)
checkAuthResolved ==
  /\ \E k \in Awaited("me") :
       /\ k.arg # null
       /\ client' = [Settled(client, k) EXCEPT !.user = accountOf(k.arg)]
  /\ ClientStep

\* catch (err): localStorage.removeItem('token'); setToken(null)
checkAuthRejected ==
  /\ \E k \in Awaited("me") :
       client' = setToken([Settled(client, k) EXCEPT !.localStorage = null], null)
  /\ ClientStep

\* login(username, password) up to its await
login ==
  /\ \E a \in Accounts : Calling(client, [call |-> "login", arg |-> a])
  /\ ClientStep

\* setUser(userData); setToken(newToken); localStorage.setItem('token', newToken)
loginResolved ==
  /\ \E k \in Awaited("login") :
       client' = setToken([Settled(client, k) EXCEPT !.user = k.arg,
                                                     !.localStorage = tokenOf(k.arg)],
                          tokenOf(k.arg))
  /\ ClientStep

\* catch (err): setError(errorMessage)
loginRejected ==
  /\ \E k \in Awaited("login") : client' = Settled(client, k)
  /\ ClientStep

\* register(userData) up to its await
register ==
  /\ \E a \in Accounts : Calling(client, [call |-> "register", arg |-> a])
  /\ ClientStep

\* setUser(newUser); setToken(newToken); localStorage.setItem('token', newToken)
registerResolved ==
  /\ \E k \in Awaited("register") :
       client' = setToken([Settled(client, k) EXCEPT !.user = k.arg,
                                                     !.localStorage = tokenOf(k.arg)],
                          tokenOf(k.arg))
  /\ ClientStep

\* catch (err): setError(errorMessage)
registerRejected ==
  /\ \E k \in Awaited("register") : client' = Settled(client, k)
  /\ ClientStep

\* setUser(null); setToken(null); localStorage.removeItem('token')
logout ==
  /\ client' = setToken([client EXCEPT !.user = null, !.localStorage = null], null)
  /\ ClientStep

\* The page is loaded with any token item left in localStorage.
AuthInit ==
  /\ Seeded
  /\ pg = NoPage
  /\ \E stored \in {null} \cup SessionTokens : client = Mounted(stored)

AuthNext ==
  \/ checkAuth
  \/ checkAuthResolved
  \/ checkAuthRejected
  \/ login
  \/ loginResolved
  \/ loginRejected
  \/ register
  \/ registerResolved
  \/ registerRejected
  \/ logout

AuthSpec == AuthInit /\ [][AuthNext]_vars

\* ------------------------------------------------------------------ storage failures
\* The query a request in flight is about to issue throws (the connection is
\* lost, the statement times out): control passes to the enclosing catch, which
\* answers 500.  The statement was run once and has written nothing.
QueryFails ==
  \E r \in BagToSet(inflight) :
    /\ UNCHANGED <<db, nreq, pg, client>>
    /\ Respond(r, Fail(500, Caught(r)))

\* The users lookup of authenticateToken throws: its own catch answers 500
\* before req.user is set.
ReceiveUnverified ==
  /\ Free
  /\ \E token \in Tokens \ {"none", "bad", "expired"} :
       RespondAtOnce([NoReq EXCEPT !.op = "guarded", !.token = token],
                     Fail(500, "Authentication error"))

\* ------------------------------------------------------------------ specification
\* Clients whose requests overlap create at most MaxRaced comments.
Raced == nextId + CreatesInFlight <= Len(SeedComments) + MaxRaced

Next ==
  \/ ReceiveRejected
  \/ ReceiveList
  \/ Raced /\ ReceiveCreate
  \/ ReceiveUpdate
  \/ ReceiveDelete
  \/ ReceiveApprove
  \/ ReceiveLike
  \/ ReceiveArticleUpdate
  \/ ReceiveArticleDelete
  \/ ReceivePending
  \/ OwnershipQuery
  \/ ArticleUpdate
  \/ ArticleDelete
  \/ CreateArticleQuery
  \/ CreateParentQuery
  \/ CreateInsert
  \/ UpdateComment
  \/ DeleteComment
  \/ ApproveComment
  \/ LikeCommentQuery
  \/ LikeExistingQuery
  \/ LikeDelete
  \/ LikeInsert
  \/ ListArticleQuery
  \/ ListCountQuery
  \/ ListCommentsQuery
  \/ ListRepliesQuery
  \/ PendingQuery

Spec == Init /\ [][Next]_vars

\* The same clients over a database connection that may fail at any query.
FailNext ==
  \/ Next
  \/ QueryFails
  \/ ReceiveUnverified

FailSpec == Init /\ [][FailNext]_vars

\* One client that waits for each response before it sends the next request.
Idle == inflight = EmptyBag

SeqNext ==
  \/ Idle /\ ReceiveRejected
  \/ Idle /\ ReceiveList
  \/ Idle /\ ReceiveCreate
  \/ Idle /\ ReceiveUpdate
  \/ Idle /\ ReceiveDelete
  \/ Idle /\ ReceiveApprove
  \/ Idle /\ ReceiveLike
  \/ Idle /\ ReceiveArticleUpdate
  \/ Idle /\ ReceiveArticleDelete
  \/ Idle /\ ReceivePending
  \/ OwnershipQuery
  \/ ArticleUpdate
  \/ ArticleDelete
  \/ CreateArticleQuery
  \/ CreateParentQuery
  \/ CreateInsert
  \/ UpdateComment
  \/ DeleteComment
  \/ ApproveComment
  \/ LikeCommentQuery
  \/ LikeExistingQuery
  \/ LikeDelete
  \/ LikeInsert
  \/ ListArticleQuery
  \/ ListCountQuery
  \/ ListCommentsQuery
  \/ ListRepliesQuery
  \/ PendingQuery

SeqSpec == Init /\ [][SeqNext]_vars

\* ------------------------------------------------------------------ properties
\* The request r in flight takes this step.
Moves(r) == CopiesIn(r, inflight') < CopiesIn(r, inflight)

\* The request r in flight is answered by this step.
Answered(r) == Moves(r) /\ inflight' = inflight (-) SetToBag({r}) /\ resp' # NoResp

\* C1: a create that answers 201 has just stored a comment of the actor whose
\* is_approved is true exactly when the actor's role is admin, and the isApproved
\* of the response is the stored is_approved.
C1_CreateApproval ==
  (done.op = "create" /\ resp.status = 201) =>
    /\ Exists(resp.id)
    /\ comments[resp.id].user_id = done.user
    /\ comments[resp.id].is_approved = (role(done.user) = "admin")
    /\ resp.isApproved = comments[resp.id].is_approved

C1_Witness ==
  /\ done.op = "create" /\ resp.status = 201
  /\ role(done.user) # "admin"
  /\ ~comments[resp.id].is_approved /\ ~resp.isApproved

\* C2: whenever a pending comment becomes approved, the step is the answer to
\* an approve request whose actor has the admin role.
C2_ApproveOnlyAdmin ==
  [][\A c \in CommentIds :
       (Exists(c) /\ ~comments[c].is_approved /\ comments'[c].is_approved)
         => (done'.op = "approve" /\ role(done'.user) = "admin")]_vars

\* C3: the top-level entries of a list response are approved comments without
\* parent of the article asked for, their replies are approved comments whose
\* parent is the entry (an entry deleted since it was read is no pending
\* comment), and a list request goes past its article lookup only when the
\* article is published.
C3_Entries ==
  (done.op = "list" /\ resp.status = 200) =>
    \A e \in resp.comments :
      /\ Exists(e.id) =>
           /\ comments[e.id].is_approved
           /\ comments[e.id].parent_id = NULL
           /\ comments[e.id].article_id = done.articleId
      /\ \A x \in e.replies :
           Exists(x.id) => comments[x.id].is_approved /\ comments[x.id].parent_id = e.id

C3_ArticleStep ==
  \A r \in At("listArticle") :
    (Moves(r) /\ ~Answered(r)) => articles[r.articleId] = "published"

C3_ListShowsApproved == []C3_Entries /\ [][C3_ArticleStep]_vars

C3_Witness ==
  /\ done.op = "list" /\ resp.status = 200
  /\ \E e \in resp.comments : e.replies # {}
  /\ \E c \in CommentIds :
       Exists(c) /\ ~comments[c].is_approved /\ comments[c].article_id = done.articleId

\* C4: an update or delete of a non-admin whose ownership lookup finds no
\* comment is answered 404; one that finds a comment of another user is
\* answered 403 and changes no comment and no like; the handler's own query
\* answers 404 when the comment is gone, and for an admin 200 when it is there.
C4_Step ==
  \A r \in BagToSet(inflight) :
    (Moves(r) /\ r.op \in {"update", "delete"}) =>
      /\ (r.pc = "own" /\ ~Exists(r.id)) => (Answered(r) /\ resp'.status = 404)
      /\ (r.pc = "own" /\ Exists(r.id) /\ comments[r.id].user_id # r.user) =>
           /\ Answered(r) /\ resp'.status = 403
           /\ comments' = comments /\ likes' = likes
      /\ (r.pc = r.op /\ ~Exists(r.id)) => (Answered(r) /\ resp'.status = 404)
      /\ (r.pc = r.op /\ Exists(r.id) /\ role(r.user) = "admin") =>
           (Answered(r) /\ resp'.status = 200)

C4_OwnershipErrors == [][C4_Step]_vars

C4_Witness ==
  /\ done.op = "delete" /\ resp.status = 403
  /\ Exists(done.id) /\ comments[done.id].user_id # done.user
  /\ role(done.user) # "admin"

\* C5: with one client at a time, every toggle that reaches its write answers
\* 200, flips the existence of the (comment, user) row and reports liked equal
\* to the row's existence after it; so the liked values reported for a pair
\* alternate and the last one is the row's existence.
C5_Log ==
  \A k \in DOMAIN toggleLog :
    LET lg == toggleLog[k] IN
    /\ \A i \in 1..(Len(lg) - 1) : lg[i] # lg[i + 1]
    /\ lg # <<>> => (lg[Len(lg)] = (likes[k] > 0))

C5_Flip ==
  \A r \in At("likeDelete") \cup At("likeInsert") :
    Moves(r) =>
      /\ Answered(r) /\ resp'.status = 200
      /\ (likes'[<<r.id, r.user>>] > 0) = ~(likes[<<r.id, r.user>>] > 0)
      /\ resp'.liked = (likes'[<<r.id, r.user>>] > 0)

C5_ToggleFlips == []C5_Log /\ [][C5_Flip]_vars

C5_Witness ==
  \E k \in DOMAIN toggleLog : toggleLog[k] = <<TRUE, FALSE, TRUE>> /\ likes[k] = 1

\* C6: a toggle whose INSERT meets an existing row of the same (comment, user)
\* is answered 200.
C6_LoserSucceeds ==
  [][\A r \in At("likeInsert") :
       (Moves(r) /\ Exists(r.id) /\ likes[<<r.id, r.user>>] > 0)
         => (Answered(r) /\ resp'.status = 200)]_vars

\* C7: comment_likes holds at most one row for each (comment, user).
C7_AtMostOneLike == \A k \in DOMAIN likes : likes[k] <= 1

C7_Witness ==
  /\ done.op = "like" /\ resp.status = 500
  /\ Exists(done.id) /\ likes[<<done.id, done.user>>] = 1

\* C8: with one client at a time, every like count of a list response, of a
\* top-level entry or of a reply, is the number of users whose latest
\* successful toggle on that comment reported liked.
LikedUsers(c) ==
  {u \in ValidTokens : LET lg == toggleLog[<<c, u>>] IN lg # <<>> /\ lg[Len(lg)]}

C8_LikeCounts ==
  (done.op = "list" /\ resp.status = 200) =>
    \A e \in resp.comments :
      /\ e.likesCount = Cardinality(LikedUsers(e.id))
      /\ \A x \in e.replies : x.likesCount = Cardinality(LikedUsers(x.id))

C8_Witness ==
  /\ done.op = "list" /\ resp.status = 200
  /\ \E e \in resp.comments :
       e.likesCount = 1 /\ \E x \in e.replies : x.likesCount = 1

\* C9: a delete of comment c that answers 200 leaves no row c, no like of c
\* and no comment whose parent is c, and leaves every comment that is neither
\* c nor below c, and its likes, as they were.
RECURSIVE IsUnder(_, _, _)
IsUnder(d, c, n) ==
  /\ n > 0
  /\ Exists(d)
  /\ comments[d].parent_id # NULL
  /\ \/ comments[d].parent_id = c
     \/ IsUnder(comments[d].parent_id, c, n - 1)

C9_Step ==
  \A r \in At("delete") :
    (Answered(r) /\ resp'.status = 200) =>
      /\ comments'[r.id] = NoRow
      /\ \A u \in ValidTokens : likes'[<<r.id, u>>] = 0
      /\ \A d \in CommentIds : comments'[d] # NoRow => comments'[d].parent_id # r.id
      /\ \A d \in CommentIds \ {r.id} :
           ~IsUnder(d, r.id, MaxComments) =>
             /\ comments'[d] = comments[d]
             /\ \A u \in ValidTokens : likes'[<<d, u>>] = likes[<<d, u>>]

C9_DeleteCascades == [][C9_Step]_vars

C9_Witness ==
  /\ done.op = "delete" /\ resp.status = 200 /\ done.id = 2
  /\ ~Exists(2) /\ ~Exists(3)
  /\ Exists(1) /\ \E u \in ValidTokens : likes[<<1, u>>] = 1

\* C10: a comment that is approved is still approved after every step that
\* leaves it in the table.
C10_ApprovalStays ==
  [][\A c \in CommentIds :
       (Exists(c) /\ comments[c].is_approved /\ comments'[c] # NoRow)
         => comments'[c].is_approved]_vars

C10_Witness ==
  /\ done.op = "update" /\ resp.status = 200
  /\ Exists(done.id) /\ comments[done.id].is_approved
  /\ comments[done.id].content = "a"

\* C11: every comment that has a parent has a parent that exists and belongs
\* to the same article.
C11_ParentSameArticle ==
  \A c \in CommentIds :
    (Exists(c) /\ comments[c].parent_id # NULL) =>
      /\ Exists(comments[c].parent_id)
      /\ comments[comments[c].parent_id].article_id = comments[c].article_id

C11_Witness ==
  /\ done.op = "create" /\ resp.status = 201
  /\ Exists(resp.id) /\ comments[resp.id].parent_id = done.parentId
  /\ done.parentId # NULL /\ Exists(done.parentId)

\* C12: a create whose article lookup finds no published article, or whose
\* parent lookup finds the given parent missing, on another article or pending,
\* is answered 404 and stores no comment.
C12_Step ==
  \A r \in At("createArticle") \cup At("createParent") :
    LET p == r.parentId
        badArticle == articles[r.articleId] # "published"
        badParent == /\ p # NULL
                     /\ \/ ~Exists(p)
                        \/ comments[p].article_id # r.articleId
                        \/ ~comments[p].is_approved
    IN (Moves(r) /\ \/ r.pc = "createArticle" /\ badArticle
                    \/ r.pc = "createParent" /\ badParent)
         => /\ Answered(r) /\ resp'.status = 404
            /\ comments' = comments /\ nextId' = nextId

C12_CreateNotFound == [][C12_Step]_vars

C12_Witness ==
  /\ done.op = "create" /\ resp.status = 404
  /\ articles[done.articleId] = "published"
  /\ done.parentId # NULL /\ Exists(done.parentId)
  /\ comments[done.parentId].article_id = done.articleId
  /\ ~comments[done.parentId].is_approved

\* C13: a toggle whose comment lookup finds the comment missing or pending is
\* answered 404 and writes no like row; and every like row references a
\* comment that exists and is approved.
C13_Rows ==
  \A k \in DOMAIN likes :
    likes[k] > 0 => (Exists(k[1]) /\ comments[k[1]].is_approved)

C13_Step ==
  \A r \in At("likeComment") :
    (Moves(r) /\ (~Exists(r.id) \/ ~comments[r.id].is_approved))
      => (Answered(r) /\ resp'.status = 404 /\ likes' = likes)

C13_LikesOnApproved == []C13_Rows /\ [][C13_Step]_vars

C13_Witness ==
  /\ done.op = "like" /\ resp.status = 404
  /\ Exists(done.id) /\ ~comments[done.id].is_approved
  /\ \A u \in ValidTokens : likes[<<done.id, u>>] = 0

\* C15: for every valid page and limit and every total count, the returned
\* hasNextPage is true exactly when page * limit < totalComments.
C15_HasNextPage ==
  pg.out.status = 200 =>
    (pg.out.hasNextPage <=> pageOf(pg.page) * limitOf(pg.limit) < pg.out.totalComments)

C15_Witness ==
  /\ pg.out.status = 200 /\ pg.out.hasNextPage
  /\ pg.page = <<2>> /\ pg.limit = <<0, 2>> /\ pg.out.totalComments = 5

\* C18: an authenticated non-admin who asks for the pending list is answered
\* 403 and receives no list.
C18_PendingAdminOnly ==
  (done.op = "pending" /\ done.user \in UserIds /\ role(done.user) # "admin")
    => (resp.status = 403 /\ resp.pendingComments = <<>>)

\* C19: the pending list answered to an admin holds exactly the comments that
\* are not approved, each once, oldest first, and count is its length.
C19_PendingList ==
  (done.op = "pending" /\ resp.status = 200 /\ done.user \in UserIds
     /\ role(done.user) = "admin") =>
    LET q == resp.pendingComments IN
    /\ {q[i] : i \in DOMAIN q} =
         {c \in CommentIds : Exists(c) /\ ~comments[c].is_approved}
    /\ \A i, j \in DOMAIN q :
         i < j => (q[i] # q[j] /\ createdAt(q[i]) <= createdAt(q[j]))
    /\ resp.count = Len(q)

C19_Witness ==
  /\ done.op = "pending" /\ resp.status = 200 /\ role(done.user) = "admin"
  /\ resp.pendingComments = <<4, 5>> /\ resp.count = 2
  /\ comments[4].article_id # comments[5].article_id

\* C14: with one client at a time, a list response leaves out every pending
\* top-level comment a role=user actor posted on the listed article and
\* returns every approved one as a top-level entry, with no replies and like
\* count 0 when it has neither; and an admin's successful approve leaves the
\* comment approved.
C14_List ==
  (done.op = "list" /\ resp.status = 200) =>
    \A c \in CommentIds :
      (/\ Exists(c) /\ role(comments[c].user_id) = "user"
       /\ comments[c].article_id = done.articleId
       /\ comments[c].parent_id = NULL) =>
        /\ ~comments[c].is_approved =>
             \A e \in resp.comments : e.id # c /\ \A x \in e.replies : x.id # c
        /\ comments[c].is_approved =>
             \E e \in resp.comments :
               /\ e.id = c
               /\ (/\ \A d \in CommentIds : Exists(d) => comments[d].parent_id # c
                   /\ \A u \in ValidTokens : likes[<<c, u>>] = 0)
                    => (e.replies = {} /\ e.likesCount = 0)

C14_Approve ==
  \A r \in At("approve") :
    (Answered(r) /\ resp'.status = 200 /\ role(r.user) = "admin")
      => comments'[r.id].is_approved

C14_PendingThenListed == []C14_List /\ [][C14_Approve]_vars

C14_Witness ==
  /\ done.op = "list" /\ resp.status = 200
  /\ \E e \in resp.comments :
       /\ Exists(e.id) /\ role(comments[e.id].user_id) = "user"
       /\ e.replies = {} /\ e.likesCount = 0

\* C16: a request without a token is answered 401 'Access token required', a
\* request whose token fails verification 403 'Invalid token'; neither sets
\* req.user, reaches a handler or changes a table.
C16_State ==
  /\ \A r \in BagToSet(inflight) : r.token \notin {"none", "bad"}
  /\ done.token = "none" =>
       (resp.status = 401 /\ resp.error = "Access token required" /\ done.user = "-")
  /\ done.token = "bad" =>
       (resp.status = 403 /\ resp.error = "Invalid token" /\ done.user = "-")

C16_Step == done'.token \in {"none", "bad"} => UNCHANGED <<db, inflight>>

C17_State ==
  /\ \A r \in BagToSet(inflight) :
       r.user # "-" => (r.user \in UserIds /\ users[r.user].is_active)
  /\ done.user # "-" => (done.user \in UserIds /\ users[done.user].is_active)
  /\ done.token \in {"ghost", "off"} => (resp.status = 401 /\ done.user = "-")

C17_Step == done'.token \in {"ghost", "off"} => UNCHANGED <<db, inflight>>

C17_IdentityAvailable == []C17_State /\ [][C17_Step]_vars

C17_Witness ==
  done.token = "off" /\ resp.status = 401 /\ resp.error = "Account deactivated"

\* C20: an update answered 200 changes the content of its comment and nothing
\* else: the comment's approval, article, author and parent, every other
\* comment and every like row are as before.
C20_Step ==
  \A r \in At("update") :
    (Answered(r) /\ resp'.status = 200) =>
      /\ comments'[r.id].content = r.content
      /\ comments'[r.id].is_approved = comments[r.id].is_approved
      /\ comments'[r.id].article_id = comments[r.id].article_id
      /\ comments'[r.id].user_id = comments[r.id].user_id
      /\ comments'[r.id].parent_id = comments[r.id].parent_id
      /\ \A d \in CommentIds \ {r.id} : comments'[d] = comments[d]
      /\ likes' = likes

C20_UpdateFrame == [][C20_Step]_vars

C20_Witness ==
  /\ done.op = "update" /\ resp.status = 200 /\ done.id = 3
  /\ comments[3].content = "a" /\ comments[3].parent_id = 2
  /\ \E u \in ValidTokens : likes[<<3, u>>] = 1

\* C21: an approve of a comment that is already approved is answered 200 with
\* isApproved true and leaves every comment row as it was; and approving a row
\* twice gives the row that approving it once gives.
C21_Twice ==
  \A c \in CommentIds :
    Exists(c) => ApprovedRow(ApprovedRow(comments[c])) = ApprovedRow(comments[c])

C21_Step ==
  \A r \in At("approve") :
    (Moves(r) /\ Exists(r.id) /\ comments[r.id].is_approved) =>
      /\ Answered(r) /\ resp'.status = 200 /\ resp'.isApproved
      /\ comments' = comments

C21_ApproveIdempotent == []C21_Twice /\ [][C21_Step]_vars

C21_Witness ==
  /\ done.op = "approve" /\ resp.status = 200 /\ resp.isApproved
  /\ done.id <= Len(SeedComments)
  /\ Exists(done.id) /\ comments[done.id].is_approved

\* C22: after a comment create answered 201 and after a comment delete
\* answered 200, the comment_count of every article is the number of comments
\* stored for it.
CommentsOf(a) == {c \in CommentIds : Exists(c) /\ comments[c].article_id = a}

C22_CommentCount ==
  ((done.op = "create" /\ resp.status = 201) \/ (done.op = "delete" /\ resp.status = 200))
    => \A a \in ArticleIds :
         articles[a] # "gone" => comment_count[a] = Cardinality(CommentsOf(a))

\* C23: a non-admin's update or delete of an existing article is answered 200
\* when the actor is the article's author and 403 when not.
C23_ArticleOwnership ==
  (/\ done.op \in {"articleUpdate", "articleDelete"}
   /\ done.user \in UserIds /\ role(done.user) # "admin"
   /\ articles[done.articleId] # "gone")
    => resp.status = (IF author_id[done.articleId] = done.user THEN 200 ELSE 403)

\* C24: when a mutating operation issues its write, the preconditions its
\* earlier queries checked still hold: the article of a create is published
\* and its parent an approved comment of that article, the comment of a toggle
\* is approved and its like row is as the lookup found it, and the comment of
\* a non-admin's update, delete or approve is there and is the actor's own.
C24_Step ==
  \A r \in BagToSet(inflight) :
    Moves(r) =>
      /\ r.pc = "createInsert" =>
            /\ Published(r.articleId)
            /\ r.parentId # NULL => ParentFound(r.parentId, r.articleId)
      /\ r.pc = "likeInsert" => (Likeable(r.id) /\ likes[<<r.id, r.user>>] = 0)
      /\ r.pc = "likeDelete" => (Likeable(r.id) /\ likes[<<r.id, r.user>>] > 0)
      /\ (r.pc \in {"update", "delete", "approve"} /\ role(r.user) # "admin") =>
            (Exists(r.id) /\ comments[r.id].user_id = r.user)

C24_Atomic == [][C24_Step]_vars

\* C25 as stated: a non-admin's update whose content fails validation is
\* answered 400 at the ownership check already, whoever owns the comment.
C25_ValidationFirst ==
  [][\A r \in At("own") :
       (Moves(r) /\ r.op = "update" /\ ~validContent(r.content))
         => (Answered(r) /\ resp'.status = 400)]_vars

\* C25, amended: the stages are authentication, ownership, validation,
\* persistence.  An update with invalid content whose ownership check fails is
\* answered 404 or 403; and every 400 'Validation failed' answers a request
\* whose credential was accepted and, for a non-admin's update, whose comment
\* is the actor's own, and changes no table.
C25_Step ==
  /\ \A r \in At("own") :
        (Moves(r) /\ r.op = "update" /\ ~validContent(r.content)) =>
          /\ ~Exists(r.id) => (Answered(r) /\ resp'.status = 404)
          /\ (Exists(r.id) /\ ~Owns(r)) => (Answered(r) /\ resp'.status = 403)
          /\ (Exists(r.id) /\ Owns(r)) => (Answered(r) /\ resp'.status = 400)
  /\ (resp'.status = 400 /\ resp'.error = "Validation failed") =>
        /\ done'.user \in ValidTokens
        /\ (done'.op = "update" /\ role(done'.user) # "admin") =>
              (Exists(done'.id) /\ comments[done'.id].user_id = done'.user)
        /\ UNCHANGED db

C25_StageOrder == [][C25_Step]_vars

C25_Witness ==
  /\ done.op = "update" /\ resp.status = 400 /\ resp.error = "Validation failed"
  /\ role(done.user) # "admin"
  /\ Exists(done.id) /\ comments[done.id].user_id = done.user

\* C26: a request whose query fails, by a violated constraint or a failing
\* connection, is answered 500 with the fixed error text of its catch block
\* and no table change; and every step of a request either answers it or moves
\* it on to a later query of its handler, so no query is issued twice.
GenericErrors ==
  {"Authentication error", "Ownership verification error",
   "Failed to retrieve comments", "Failed to create comment",
   "Failed to update comment", "Failed to delete comment",
   "Failed to toggle comment like", "Failed to approve comment",
   "Failed to retrieve pending comments", "Failed to update article",
   "Failed to delete article"}

Stage(pc) ==
  CASE pc \in {"own", "createArticle", "likeComment", "listArticle"} -> 1
    [] pc \in {"createParent", "likeExisting", "listCount"} -> 2
    [] pc \in {"createInsert", "likeDelete", "likeInsert", "listComments"} -> 3
    [] pc = "listReplies" -> 4
    [] OTHER -> 2

Rank(r) == Stage(r.pc) * (MaxComments + 1) + (MaxComments - Cardinality(r.pending))

C26_State == resp.status = 500 => resp.error \in GenericErrors

C26_Step ==
  \A r \in BagToSet(inflight) :
    Moves(r) =>
      /\ \/ Answered(r)
         \/ \E r2 \in BagToSet(inflight') :
              /\ CopiesIn(r2, inflight') > CopiesIn(r2, inflight)
              /\ r2.op = r.op /\ Rank(r2) > Rank(r)
      /\ (Answered(r) /\ resp'.status = 500) => UNCHANGED db

C26_StorageErrors == []C26_State /\ [][C26_Step]_vars

C26_Witness ==
  /\ done.op = "update" /\ resp.status = 500
  /\ resp.error = "Failed to update comment"
  /\ Exists(done.id) /\ comments[done.id].content = "s"

\* C27: with one client at a time, a list response for an article contains
\* every approved comment of the article, as a top-level entry or among the
\* replies of one.
C27_AllListed ==
  (done.op = "list" /\ resp.status = 200) =>
    \A c \in CommentIds :
      (Exists(c) /\ comments[c].is_approved /\ comments[c].article_id = done.articleId) =>
        \E e \in resp.comments : e.id = c \/ \E x \in e.replies : x.id = c

\* C28: in a list response the repliesCount of every top-level entry is the
\* number of entries of its replies.
C28_RepliesCount ==
  (done.op = "list" /\ resp.status = 200) =>
    \A e \in resp.comments : e.repliesCount = Cardinality(e.replies)

\* C29: of the pages 1, 2, ... requested with one limit and one sort, every
\* page before the last holds exactly limit entries, every page after
\* totalPages is empty, no comment is returned twice, and once the pages
\* 1..totalPages are in, every approved top-level comment has been returned.
C29_PagesPartition ==
  LET P == pg.pages
      lim == limitOf(pg.limit)
  IN /\ \A i \in DOMAIN P :
          /\ P[i].out.totalComments = pg.total /\ P[i].out.currentPage = i
          /\ i < P[i].out.totalPages => Len(P[i].rows) = lim
          /\ i > P[i].out.totalPages => P[i].rows = <<>>
          /\ \A a \in DOMAIN P[i].rows : P[i].rows[a] \in 1..pg.total
     /\ \A i, j \in DOMAIN P : \A a \in DOMAIN P[i].rows, b \in DOMAIN P[j].rows :
          P[i].rows[a] = P[j].rows[b] => (i = j /\ a = b)
     /\ (P # <<>> /\ Len(P) >= P[1].out.totalPages) =>
          \A c \in 1..pg.total :
            \E i \in 1..P[1].out.totalPages : \E a \in DOMAIN P[i].rows : P[i].rows[a] = c

C29_Witness ==
  /\ pg.total = 5 /\ pg.limit = <<2>> /\ pg.sort = "likes"
  /\ pg.likes = <<0, 1, 0, 1, 0>>
  /\ Len(pg.pages) = 4
  /\ pg.pages[1].rows = <<4, 2>> /\ pg.pages[2].rows = <<5, 3>>
  /\ pg.pages[3].rows = <<1>> /\ pg.pages[4].rows = <<>>
  /\ pg.pages[1].out.totalPages = 3

\* C30: whenever the AuthProvider's user is set, its token is set and is the
\* token item of localStorage; and a logout leaves user, token and the token
\* item cleared.
C30_State ==
  client.user # null =>
    (client.token # null /\ client.token = client.localStorage)

C30_Logout ==
  logout => (client'.user = null /\ client'.token = null /\ client'.localStorage = null)

C30_UserHasToken == []C30_State /\ [][C30_Logout]_vars
====
